---- MODULE Spec2Model ----
(***************************************************************************)
(* Model of custom_components/scheduler/datacollection.py: the             *)
(* DataCollection aggregate (entries, actions, name, icon, sun_data), its  *)
(* compact-string codec (import_data / export_data), the verbose import    *)
(* (import_from_service), the action resolver                              *)
(* (get_service_calls_for_entry), the closest-entry selection              *)
(* (get_next_entry) and the solar drift decision (update_sun_data).        *)
(*                                                                         *)
(* Python strings that the code takes apart (entry strings, "HH:MM"        *)
(* times, offsets, services, entity ids) are sequences of one-character    *)
(* strings.  Python dicts are functions whose DOMAIN is the dict's key     *)
(* set, so "key in dict" is "key \in DOMAIN dict".                         *)
(***************************************************************************)
EXTENDS Integers, Sequences, FiniteSets, TLC

VARIABLES entries, actions, name, icon, sun_data, now, data, pc, ret, restored

vars == <<entries, actions, name, icon, sun_data, now, data, pc, ret, restored>>

(***************************************************************************)
(* Python values                                                           *)
(***************************************************************************)

\* None where a Python str or a dict is expected.
None == <<"None">>

\* str(None) as "{}".format prints it.
NoneText == <<"N", "o", "n", "e">>

\* None where a Python dict is expected.
NoneDict == [none |-> TRUE]

\* None where a str that the code never takes apart is expected (name, icon).
NoneAtom == "None"

\* The empty dict.
EmptyDict == [k \in {} |-> k]

\* "not x" of a dict or None
Falsy(x) == x = NoneDict \/ x = EmptyDict

Digit == {"0", "1", "2", "3", "4", "5", "6", "7", "8", "9"}

\* "{}".format(x) of a str or None.
Format(x) == IF x = None THEN NoneText ELSE x

\* c in s
Contains(s, c) == \E i \in 1..Len(s) : s[i] = c

\* s.replace(c, "")
Remove(s, c) == SelectSeq(s, LAMBDA x : x # c)

AllIn(s, class) == \A i \in 1..Len(s) : s[i] \in class

\* s.split(".").pop(0): the part before the first "."
SplitPop0(s) ==
    IF Contains(s, ".")
    THEN LET i == CHOOSE k \in 1..Len(s) : s[k] = "." /\ \A j \in 1..(k - 1) : s[j] # "."
         IN  SubSeq(s, 1, i - 1)
    ELSE s

DigitVal(c) ==
    CASE c = "0" -> 0 [] c = "1" -> 1 [] c = "2" -> 2 [] c = "3" -> 3 [] c = "4" -> 4
      [] c = "5" -> 5 [] c = "6" -> 6 [] c = "7" -> 7 [] c = "8" -> 8 [] c = "9" -> 9

DigitChar(n) ==
    CASE n = 0 -> "0" [] n = 1 -> "1" [] n = 2 -> "2" [] n = 3 -> "3" [] n = 4 -> "4"
      [] n = 5 -> "5" [] n = 6 -> "6" [] n = 7 -> "7" [] n = 8 -> "8" [] n = 9 -> "9"

\* int(s) of a non-empty string of decimal digits
RECURSIVE PyInt(_)
PyInt(s) ==
    IF Len(s) = 0 THEN 0
    ELSE 10 * PyInt(SubSeq(s, 1, Len(s) - 1)) + DigitVal(s[Len(s)])

\* str(n) of an int
RECURSIVE PyStr(_)
PyStr(n) ==
    IF n < 0 THEN <<"-">> \o PyStr(-n)
    ELSE IF n < 10 THEN <<DigitChar(n)>>
    ELSE PyStr(n \div 10) \o <<DigitChar(n % 10)>>

\* sep.join(parts)
RECURSIVE Join(_, _)
Join(sep, parts) ==
    IF parts = <<>> THEN <<>>
    ELSE IF Len(parts) = 1 THEN parts[1]
    ELSE parts[1] \o sep \o Join(sep, Tail(parts))

\* list(filter(None, s.split(sep))): the non-empty pieces of s between sep
RECURSIVE SplitNonEmpty(_, _, _)
SplitNonEmpty(s, sep, cur) ==
    IF s = <<>> THEN (IF cur = <<>> THEN <<>> ELSE <<cur>>)
    ELSE IF Head(s) = sep
         THEN (IF cur = <<>> THEN <<>> ELSE <<cur>>) \o SplitNonEmpty(Tail(s), sep, <<>>)
         ELSE SplitNonEmpty(Tail(s), sep, Append(cur, Head(s)))

\* [f(x) for x in s]
Map(s, f(_)) == [i \in 1..Len(s) |-> f(s[i])]

(***************************************************************************)
(* The three patterns                                                      *)
(***************************************************************************)

TimeClass == Digit \cup {"S", "R", "D", "U", "W"}
ActionClass == Digit \cup {"A"}

NoMatch == [nomatch |-> TRUE]

\* The ways "^D([0-9]+)T([0-9SRDUW]+)T?([0-9SRDUW]+)?([A0-9]+)$" can match s:
\* l1, l2 the lengths of groups 1 and 2, t = 1 when "T?" takes a "T", l3 the
\* length of group 3 (0 when the optional group takes no part); group 4 is
\* the rest of s.
EntryPatternWays(s) ==
    LET n == Len(s) IN
    {w \in (1..n) \X (1..n) \X (0..1) \X (0..n) :
        LET l1 == w[1]
            l2 == w[2]
            t  == w[3]
            l3 == w[4]
            p2 == 2 + l1 + 1
            p3 == p2 + l2 + t
            p4 == p3 + l3
        IN  /\ p4 <= n
            /\ s[1] = "D"
            /\ AllIn(SubSeq(s, 2, 1 + l1), Digit)
            /\ s[2 + l1] = "T"
            /\ AllIn(SubSeq(s, p2, p2 + l2 - 1), TimeClass)
            /\ (t = 1 => s[p2 + l2] = "T")
            /\ AllIn(SubSeq(s, p3, p3 + l3 - 1), TimeClass)
            /\ AllIn(SubSeq(s, p4, n), ActionClass)}

\* w1 is tried before w2 by the backtracking matcher: every quantifier is
\* greedy, so the longer (or present) alternative comes first, leftmost
\* quantifier first.
TriedBefore(w1, w2) ==
    \E i \in 1..4 : w1[i] > w2[i] /\ \A j \in 1..(i - 1) : w1[j] = w2[j]

\* The groups of the way w of matching s
EntryGroups(s, w) ==
    [g1 |-> SubSeq(s, 2, 1 + w[1]),
     g2 |-> SubSeq(s, 3 + w[1], 2 + w[1] + w[2]),
     g3 |-> IF w[4] = 0 THEN None
            ELSE SubSeq(s, 3 + w[1] + w[2] + w[3], 2 + w[1] + w[2] + w[3] + w[4]),
     g4 |-> SubSeq(s, 3 + w[1] + w[2] + w[3] + w[4], Len(s))]

\* The way the matcher finds first
FirstWay(ways) == CHOOSE x \in ways : \A y \in ways \ {x} : TriedBefore(x, y)

\* EntryPattern.match(s): the groups of the first way found, or NoMatch.
EntryPattern(s) ==
    LET Found(ways) == IF ways = {} THEN NoMatch ELSE EntryGroups(s, FirstWay(ways))
    IN  Found(EntryPatternWays(s))

\* FixedTimePattern.match(s): "^([0-9]{2})([0-9]{2})$"
FixedTimePattern(s) ==
    IF Len(s) = 4 /\ AllIn(s, Digit)
    THEN [g1 |-> SubSeq(s, 1, 2), g2 |-> SubSeq(s, 3, 4)]
    ELSE NoMatch

\* "S[SRDUW]" at position p of s
SunCodeAt(s, p) ==
    /\ p + 1 <= Len(s)
    /\ s[p] = "S"
    /\ s[p + 1] \in {"S", "R", "D", "U", "W"}

\* SunTimePattern.match(s):
\* "^(([0-9]{2})([0-9]{2}))?(S[SRDUW])(([0-9]{2})([0-9]{2}))?$"
SunTimePattern(s) ==
    LET pre  == Len(s) >= 4 /\ AllIn(SubSeq(s, 1, 4), Digit)
        p    == IF pre THEN 5 ELSE 1
        rest == Len(s) - (p + 1)
        suf  == rest = 4 /\ AllIn(SubSeq(s, p + 2, p + 5), Digit)
    IN  IF SunCodeAt(s, p) /\ (rest = 0 \/ suf)
        THEN [g1 |-> IF pre THEN SubSeq(s, 1, 4) ELSE None,
              g2 |-> IF pre THEN SubSeq(s, 1, 2) ELSE None,
              g3 |-> IF pre THEN SubSeq(s, 3, 4) ELSE None,
              g4 |-> SubSeq(s, p, p + 1),
              g5 |-> IF suf THEN SubSeq(s, p + 2, p + 5) ELSE None,
              g6 |-> IF suf THEN SubSeq(s, p + 2, p + 3) ELSE None,
              g7 |-> IF suf THEN SubSeq(s, p + 4, p + 5) ELSE None]
        ELSE NoMatch

(***************************************************************************)
(* import_data: the compact strings of a restored entity                   *)
(***************************************************************************)

\* An exception leaving a function that returns a dict or a list.
Raised == [exception |-> TRUE]

\* An exception leaving a function that returns a str.
RaisedStr == <<"Exception">>

\* import_time_input of import_data: the time dict of one time segment.
import_time_input(time_str) ==
    LET Result(fixed_time_pattern, sun_time_pattern) ==
            IF fixed_time_pattern # NoMatch
            THEN "at" :> (fixed_time_pattern.g1 \o <<":">> \o fixed_time_pattern.g2)
            ELSE IF sun_time_pattern # NoMatch
            THEN (IF sun_time_pattern.g4 = <<"S", "R">> THEN "event" :> "sunrise"
                  ELSE IF sun_time_pattern.g4 = <<"S", "S">> THEN "event" :> "sunset"
                  ELSE IF sun_time_pattern.g4 = <<"D", "W">> THEN "event" :> "dawn"
                  ELSE IF sun_time_pattern.g4 = <<"D", "U">> THEN "event" :> "dusk"
                  ELSE EmptyDict)
                 @@ ("offset" :>
                        IF sun_time_pattern.g1 # None
                        THEN <<"-">> \o Format(sun_time_pattern.g2) \o <<":">>
                                     \o Format(sun_time_pattern.g3)
                        ELSE <<"+">> \o Format(sun_time_pattern.g6) \o <<":">>
                                     \o Format(sun_time_pattern.g7))
            ELSE Raised
    IN  Result(FixedTimePattern(time_str), SunTimePattern(time_str))

\* One round of the loop over data["entries"]: the entry dict of one string,
\* NoMatch when EntryPattern does not match, Raised when a time segment
\* fails to parse.
import_entry(entry) ==
    LET Built(res, time, end_time) ==
            IF time = Raised \/ end_time = Raised THEN Raised
            ELSE ("time" :> time)
                 @@ (IF res.g3 # None THEN "end_time" :> end_time ELSE EmptyDict)
                 @@ ("days" :> Map(res.g1, DigitVal))
                 @@ ("actions" :> Map(SplitNonEmpty(res.g4, "A", <<>>), PyInt))
        Decoded(res) ==
            IF res = NoMatch THEN NoMatch
            ELSE Built(res, import_time_input(res.g2),
                       IF res.g3 # None THEN import_time_input(res.g3) ELSE EmptyDict)
    IN  Decoded(EntryPattern(entry))

\* The loop over data["entries"]: self.entries after it and what import_data
\* does when it ends ("True", "False", or "Exception" when it raises).  An
\* entry is appended as soon as it is decoded.
RECURSIVE import_entries(_, _)
import_entries(strs, acc) ==
    LET Round(my_entry) ==
            IF my_entry = NoMatch THEN [entries |-> acc, ret |-> "False"]
            ELSE IF my_entry = Raised THEN [entries |-> acc, ret |-> "Exception"]
            ELSE import_entries(Tail(strs), Append(acc, my_entry))
    IN  IF strs = <<>> THEN [entries |-> acc, ret |-> "True"]
        ELSE Round(import_entry(Head(strs)))

\* import_data(self, data): the aggregate after the call and the result.
\* self.actions is replaced before the first entry is decoded.
import_data(self, d) ==
    LET Loaded(loop) ==
            [entries |-> loop.entries,
             actions |-> d.actions,
             name    |-> IF loop.ret = "True" /\ "friendly_name" \in DOMAIN d
                         THEN d.friendly_name ELSE self.name,
             icon    |-> IF loop.ret = "True" /\ "icon" \in DOMAIN d
                         THEN d.icon ELSE self.icon,
             sun_data |-> self.sun_data,
             ret     |-> loop.ret]
    IN  IF ~("actions" \in DOMAIN d) \/ ~("entries" \in DOMAIN d)
        THEN [entries |-> self.entries, actions |-> self.actions,
              name |-> self.name, icon |-> self.icon, sun_data |-> self.sun_data,
              ret |-> "False"]
        ELSE Loaded(import_entries(d.entries, self.entries))

(***************************************************************************)
(* export_data                                                             *)
(***************************************************************************)

\* The event code export_time writes; RaisedStr for an event that is none of
\* the four (event_string is then read unbound).
event_string(event) ==
    IF event = "sunrise" THEN <<"S", "R">>
    ELSE IF event = "sunset" THEN <<"S", "S">>
    ELSE IF event = "dawn" THEN <<"D", "W">>
    ELSE IF event = "dusk" THEN <<"D", "U">>
    ELSE RaisedStr

\* export_time of export_data: the time segment of one time dict.
export_time(entry_time) ==
    IF "at" \in DOMAIN entry_time
    THEN Remove(entry_time.at, ":")
    ELSE IF "event" \in DOMAIN entry_time
    THEN IF event_string(entry_time.event) = RaisedStr \/ ~("offset" \in DOMAIN entry_time)
         THEN RaisedStr
         ELSE IF Contains(entry_time.offset, "+")
         THEN event_string(entry_time.event) \o Remove(Remove(entry_time.offset, "+"), ":")
         ELSE Remove(Remove(entry_time.offset, "-"), ":") \o event_string(entry_time.event)
    ELSE RaisedStr

\* One round of the loop over self.entries: the compact string of one entry.
export_entry(entry) ==
    LET Written(time_string, end_time_string) ==
            IF time_string = RaisedStr \/ end_time_string = RaisedStr
            THEN RaisedStr
            ELSE <<"D">> \o Join(<<>>, Map(entry.days, PyStr))
                 \o <<"T">> \o time_string
                 \o (IF end_time_string # None /\ end_time_string # <<>>
                     THEN <<"T">> \o end_time_string ELSE <<>>)
                 \o <<"A">> \o Join(<<"A">>, Map(entry.actions, PyStr))
    IN  Written(IF "time" \in DOMAIN entry THEN export_time(entry.time) ELSE RaisedStr,
                IF "end_time" \in DOMAIN entry THEN export_time(entry.end_time) ELSE None)

\* export_data(self): the output dict, or Raised.
export_data(self) ==
    LET Output(strs) ==
            IF \E i \in 1..Len(strs) : strs[i] = RaisedStr
            THEN Raised
            ELSE [entries |-> strs, actions |-> self.actions]
    IN  Output(Map(self.entries, export_entry))

(***************************************************************************)
(* import_from_service: the verbose form of a service call                 *)
(***************************************************************************)

\* "%02d" of a number below 100
Pad2(n) == IF n < 10 THEN <<"0">> \o PyStr(n) ELSE PyStr(n)

\* helpers.timedelta_to_string of an offset of m whole minutes: the sign,
\* then HH:MM.
timedelta_to_string(m) ==
    LET a == IF m < 0 THEN -m ELSE m IN
    (IF m < 0 THEN <<"-">> ELSE <<"+">>) \o Pad2(a \div 60) \o <<":">> \o Pad2(a % 60)

\* import_time_input of import_from_service.  A datetime.time is
\* [hour, minute]; anything else is a dict with "event" and "offset" (a
\* timedelta, in minutes).
service_time_input(input) ==
    IF "hour" \in DOMAIN input
    THEN "at" :> (Pad2(input.hour) \o <<":">> \o Pad2(input.minute))
    ELSE ("event" :> input.event) @@ ("offset" :> timedelta_to_string(input.offset))

\* s.split(".").pop(1): the part between the first and the second ".";
\* RaisedStr (IndexError) when s holds no "."
SplitPop1(s) ==
    IF Contains(s, ".")
    THEN SplitPop0(SubSeq(s, Len(SplitPop0(s)) + 2, Len(s)))
    ELSE RaisedStr

\* One round of the loop over data["actions"]: the stored action dict, or
\* Raised.
service_action(action) ==
    LET Stored(service_data, entity) ==
            IF entity # None /\ SplitPop0(entity) = SplitPop0(action.service)
               /\ SplitPop1(action.service) = RaisedStr
            THEN Raised
            ELSE [k \in DOMAIN service_data \ {"entity_id"} |-> service_data[k]]
                 @@ (IF entity # None THEN "entity" :> entity ELSE EmptyDict)
                 @@ ("service" :>
                        IF entity # None /\ SplitPop0(entity) = SplitPop0(action.service)
                        THEN SplitPop1(action.service)
                        ELSE action.service)
        Entity(service_data) ==
            IF "entity_id" \in DOMAIN service_data THEN service_data.entity_id
            ELSE IF "entity" \in DOMAIN action THEN action.entity
            ELSE None
        Read(service_data) == Stored(service_data, Entity(service_data))
    IN  Read(IF "service_data" \in DOMAIN action THEN action.service_data ELSE EmptyDict)

\* list.sort() of a list of ints
RECURSIVE Sorted(_)
Sorted(s) ==
    IF s = <<>> THEN <<>>
    ELSE LET m == CHOOSE i \in 1..Len(s) : \A j \in 1..Len(s) : s[i] <= s[j]
         IN  <<s[m]>> \o Sorted(SubSeq(s, 1, m - 1) \o SubSeq(s, m + 1, Len(s)))

\* One round of the loop over data["entries"].
service_entry(entry) ==
    (IF "time" \in DOMAIN entry
     THEN "time" :> service_time_input(entry.time) ELSE EmptyDict)
    @@ (IF "end_time" \in DOMAIN entry
        THEN "end_time" :> service_time_input(entry.end_time) ELSE EmptyDict)
    @@ ("days" :> IF "days" \in DOMAIN entry THEN Sorted(entry.days) ELSE <<0>>)
    @@ ("actions" :> entry.actions)

\* The number of actions the first loop appends before one raises
\* (all of them when none does)
AppendedBeforeRaise(acts) ==
    IF \A i \in 1..Len(acts) : acts[i] # Raised THEN Len(acts)
    ELSE (CHOOSE i \in 1..Len(acts) :
              acts[i] = Raised /\ \A j \in 1..(i - 1) : acts[j] # Raised) - 1

\* import_from_service(self, data): the aggregate after the call; ret is
\* "None", or "Exception" when an action makes the first loop raise (the
\* actions before it are appended already, no entry is).
import_from_service(self, d) ==
    LET Loaded(acts, upto) ==
            [entries |-> IF upto = Len(acts)
                         THEN self.entries \o Map(d.entries, service_entry)
                         ELSE self.entries,
             actions |-> self.actions \o SubSeq(acts, 1, upto),
             name    |-> IF upto = Len(acts) /\ "name" \in DOMAIN d
                         THEN d.name ELSE self.name,
             icon    |-> self.icon,
             sun_data |-> self.sun_data,
             ret     |-> IF upto = Len(acts) THEN "None" ELSE "Exception"]
        Looped(acts) == Loaded(acts, AppendedBeforeRaise(acts))
    IN  Looped(Map(d.actions, service_action))

(***************************************************************************)
(* get_service_calls_for_entry                                             *)
(***************************************************************************)

\* "." in s
Dotted(s) == Contains(s, ".")

\* service_call without the branch of line 158: an entity without "." is
\* left as it is.
service_call_entity_kept(action_data) ==
    IF ~Dotted(action_data.service) /\ ~("entity" \in DOMAIN action_data)
    THEN Raised
    ELSE ("service" :>
            IF ~Dotted(action_data.service)
            THEN SplitPop0(action_data.entity) \o <<".">> \o action_data.service
            ELSE action_data.service)
         @@ (IF "entity_id" \in DOMAIN action_data
             THEN "entity_id" :> action_data.entity_id
             ELSE IF "entity" \in DOMAIN action_data
             THEN "entity_id" :> action_data.entity
             ELSE EmptyDict)
         @@ (IF DOMAIN action_data \ {"service", "entity", "entity_id"} # {}
             THEN "data" :> [k \in DOMAIN action_data \ {"service", "entity", "entity_id"}
                                |-> action_data[k]]
             ELSE EmptyDict)

\* The call of one action dict (the body of the loop, lines 147-180), or
\* Raised: call["entity_id"] is read without a check when the service holds
\* no ".".
service_call(action_data) ==
    IF ~Dotted(action_data.service) /\ ~("entity" \in DOMAIN action_data)
    THEN Raised
    ELSE ("service" :>
            IF ~Dotted(action_data.service)
            THEN SplitPop0(action_data.entity) \o <<".">> \o action_data.service
            ELSE action_data.service)
         @@ (IF "entity_id" \in DOMAIN action_data
             THEN "entity_id" :> action_data.entity_id
             ELSE IF "entity" \in DOMAIN action_data
             THEN "entity_id" :>
                     IF Dotted(action_data.service) /\ ~Dotted(action_data.entity)
                     THEN SplitPop0(action_data.service) \o <<".">> \o action_data.entity
                     ELSE action_data.entity
             ELSE EmptyDict)
         @@ (IF DOMAIN action_data \ {"service", "entity", "entity_id"} # {}
             THEN "data" :> [k \in DOMAIN action_data \ {"service", "entity", "entity_id"}
                                |-> action_data[k]]
             ELSE EmptyDict)

\* list[i] of Python, i counted from 0 and from the end when negative;
\* Raised (IndexError) outside the list.
PyIndex(list, i) ==
    IF 0 <= i /\ i < Len(list) THEN list[i + 1]
    ELSE IF i < 0 /\ -i <= Len(list) THEN list[Len(list) + i + 1]
    ELSE Raised

\* The loop over the entry's action indices: the calls so far, and whether
\* the loop raised.
RECURSIVE service_calls(_, _, _)
service_calls(table, refs, calls) ==
    LET Round(call) ==
            IF call = Raised THEN [raised |-> TRUE, calls |-> <<>>]
            ELSE service_calls(table, Tail(refs), Append(calls, call))
        Resolve(action_data) ==
            Round(IF action_data = Raised THEN Raised ELSE service_call(action_data))
    IN  IF refs = <<>> THEN [raised |-> FALSE, calls |-> calls]
        ELSE IF Len(table) > Head(refs)
        THEN Resolve(PyIndex(table, Head(refs)))
        ELSE service_calls(table, Tail(refs), calls)

\* get_service_calls_for_entry(self, entry): the list of calls, or raised.
get_service_calls_for_entry(self, entry) ==
    service_calls(self.actions, self.entries[entry + 1].actions, <<>>)

(***************************************************************************)
(* Next firing time (helpers.calculate_next_start_time), closest entry,    *)
(* drift decision.  A timestamp is a number of seconds; day n starts at    *)
(* n * 86400 and its weekday is n % 7.  A sun_data snapshot gives each     *)
(* event's second of the day.                                              *)
(***************************************************************************)

\* Seconds after midnight of "HH:MM"
ClockSeconds(at) == PyInt(SubSeq(at, 1, 2)) * 3600 + PyInt(SubSeq(at, 4, 5)) * 60

\* Seconds of a signed offset "+HH:MM" or "-HH:MM"
OffsetSeconds(offset) ==
    (IF offset[1] = "-" THEN -1 ELSE 1) * ClockSeconds(SubSeq(offset, 2, 6))

\* The timestamp of a time dict on day `date`.
ResolveTime(time, snapshot, date) ==
    IF "at" \in DOMAIN time
    THEN date * 86400 + ClockSeconds(time.at)
    ELSE date * 86400 + snapshot[time.event] + OffsetSeconds(time.offset)

\* The least element of a non-empty set of timestamps
Earliest(S) == CHOOSE c \in S : \A c2 \in S : c <= c2

\* helpers.calculate_next_start_time(entry, sun_data) at the instant t: the
\* earliest start after t on one of the entry's weekdays, today and the
\* seven days after it; -1 when there is none.
calculate_next_start_time(entry, snapshot, t) ==
    LET Pick(later) == IF later = {} THEN -1 ELSE Earliest(later)
    IN  Pick({c \in {ResolveTime(entry.time, snapshot, (t \div 86400) + d) :
                        d \in {k \in 0..7 :
                                 \E i \in 1..Len(entry.days) :
                                    entry.days[i] = ((t \div 86400) + k) % 7}} :
                 c > t})

\* get_timestamp_for_entry(self, entry, sun_data) at the instant t
get_timestamp_for_entry(self, entry, snapshot, t) ==
    calculate_next_start_time(self.entries[entry + 1],
                              IF Falsy(snapshot) THEN self.sun_data ELSE snapshot, t)

\* reduce(lambda x, y: x if (x - now) < (y - now) else y, timestamps)
RECURSIVE Closest(_, _, _)
Closest(x, rest, t) ==
    IF rest = <<>> THEN x
    ELSE Closest(IF (x - t) < (Head(rest) - t) THEN x ELSE Head(rest), Tail(rest), t)

\* The last i with timestamps[i] == closest, where the code returns the first
LastIndexOf(timestamps, closest) ==
    (CHOOSE i \in 1..Len(timestamps) :
        /\ timestamps[i] = closest
        /\ \A j \in (i + 1)..Len(timestamps) : timestamps[j] # closest) - 1

\* The first i in range(len(timestamps)) with timestamps[i] == closest
FirstIndexOf(timestamps, closest) ==
    (CHOOSE i \in 1..Len(timestamps) :
        /\ timestamps[i] = closest
        /\ \A j \in 1..(i - 1) : timestamps[j] # closest) - 1

\* get_next_entry(self) at the instant t, for a non-empty entry list
get_next_entry(self, t) ==
    LET Found(timestamps) ==
            FirstIndexOf(timestamps, Closest(Head(timestamps), Tail(timestamps), t))
    IN  Found([i \in 1..Len(self.entries) |->
                  calculate_next_start_time(self.entries[i], self.sun_data, t)])

\* Line 339: the drift that asks for a reschedule, in seconds.
MinDrift == 60
MaxDrift == 3600

Abs(x) == IF x < 0 THEN -x ELSE x

\* update_sun_data with "abs(delta) > 60" for "abs(delta) >= 60"
update_sun_data_above(self, snapshot, entry, t) ==
    LET Decide(delta) ==
            [sun_data |-> self.sun_data,
             ret |-> Abs(delta) > MinDrift /\ Abs(delta) <= MaxDrift]
    IN  IF Falsy(self.sun_data)
        THEN [sun_data |-> snapshot, ret |-> FALSE]
        ELSE IF entry # <<>>
        THEN Decide(get_timestamp_for_entry(self, entry[1], self.sun_data, t)
                    - get_timestamp_for_entry(self, entry[1], snapshot, t))
        ELSE [sun_data |-> self.sun_data, ret |-> FALSE]

\* update_sun_data with the assignment of line 342 moved before the return:
\* a drift that asks for a reschedule stores the new snapshot.
update_sun_data_stored(self, snapshot, entry, t) ==
    LET Decide(delta) ==
            IF Abs(delta) >= MinDrift /\ Abs(delta) <= MaxDrift
            THEN [sun_data |-> snapshot, ret |-> TRUE]
            ELSE [sun_data |-> self.sun_data, ret |-> FALSE]
    IN  IF Falsy(self.sun_data)
        THEN [sun_data |-> snapshot, ret |-> FALSE]
        ELSE IF entry # <<>>
        THEN Decide(get_timestamp_for_entry(self, entry[1], self.sun_data, t)
                    - get_timestamp_for_entry(self, entry[1], snapshot, t))
        ELSE [sun_data |-> self.sun_data, ret |-> FALSE]

\* update_sun_data(self, sun_data, entry) at the instant t: self.sun_data
\* after the call and the value returned.  entry is <<>> for None and <<i>>
\* for the index i.  The assignment after "return True" is never reached.
update_sun_data(self, snapshot, entry, t) ==
    LET Decide(delta) ==
            [sun_data |-> self.sun_data,
             ret |-> Abs(delta) >= MinDrift /\ Abs(delta) <= MaxDrift]
    IN  IF Falsy(self.sun_data)
        THEN [sun_data |-> snapshot, ret |-> FALSE]
        ELSE IF entry # <<>>
        THEN Decide(get_timestamp_for_entry(self, entry[1], self.sun_data, t)
                    - get_timestamp_for_entry(self, entry[1], snapshot, t))
        ELSE [sun_data |-> self.sun_data, ret |-> FALSE]

(***************************************************************************)
(* Inputs                                                                  *)
(***************************************************************************)

\* The longest list of entry strings handed to import_data in one call.
MaxEntryStrings == 2
\* The longest action table.
MaxActions == 2
\* The longest entry list of an aggregate whose timers are computed.
MaxTimedEntries == 2

\* All sequences over S of a length in lo..hi
SeqsOf(S, lo, hi) == UNION {[1..n -> S] : n \in lo..hi}

\* The pieces entry strings are put together from.
DayParts == {<<"0">>,
             <<"1", "3", "5">>,
             <<"7">>}
TimeParts ==
    {<<"0", "7", "0", "0">>,
     <<"S", "R">>,
     <<"S", "R", "0", "0", "3", "0">>,
     <<"0", "0", "1", "5", "S", "S">>,
     <<"D", "W", "0", "0", "3", "0">>,
     <<"0", "1", "0", "0", "D", "U">>,
     <<"0", "0", "1", "5", "S", "S", "0", "0", "3", "0">>,
     <<"S", "D">>,
     <<"0", "7", "0">>}
EndParts ==
    {<<>>,
     <<"1", "9", "0", "0">>,
     <<"S", "S", "0", "1", "0", "0">>,
     <<"D", "U">>,
     <<"S", "W", "0", "0", "3", "0">>}
ActionParts == {<<"0">>,
                <<"0", "A", "1">>,
                <<"1", "2">>}

\* "D" Days "T" Time ("T" Time)? "A" Actions, as export_data writes it
Compose(days, time, end, acts) ==
    <<"D">> \o days \o <<"T">> \o time
    \o (IF end = <<>> THEN <<>> ELSE <<"T">> \o end)
    \o <<"A">> \o acts

ComposedStrings ==
    {Compose(d, t, e, a) : d \in DayParts, t \in TimeParts, e \in EndParts, a \in ActionParts}

\* Strings that are not put together that way.
OddStrings ==
    {<<"D", "0", "T", "S", "R", "0", "0", "3", "0", "A", "S", "S", "A", "0">>,
     <<"D", "0", "T", "0", "7", "0", "0", "0">>,
     <<"D", "0", "T", "0", "7", "0", "0", "T", "A", "0">>,
     <<"X", "0", "T", "0", "7", "0", "0", "A", "0">>,
     <<"D", "0", "T", "0", "7", "0", "0", "A">>,
     <<"D", "0", "T", "0", "7", "0", "0", "A", "0", "A", "1">>,
     <<"D", "0", "T", "D", "W", "A", "0">>}

\* The strings of the lists of several entries.
ListStrings ==
    {<<"D", "0", "T", "0", "7", "0", "0", "A", "0">>,
     <<"D", "1", "3", "5", "T", "S", "R", "0", "0", "3", "0", "T", "1", "9", "0", "0", "A", "0", "A", "1">>,
     <<"D", "0", "T", "0", "7", "0", "0">>,
     <<"X", "0", "T", "0", "7", "0", "0", "A", "0">>}

LightOn == <<"l", "i", "g", "h", "t", ".", "t", "u", "r", "n", "_", "o", "n">>
TurnOn == <<"t", "u", "r", "n", "_", "o", "n">>
LightKitchen == <<"l", "i", "g", "h", "t", ".", "k", "i", "t", "c", "h", "e", "n">>
Kitchen == <<"k", "i", "t", "c", "h", "e", "n">>
SwitchKitchen == <<"s", "w", "i", "t", "c", "h", ".", "k", "i", "t", "c", "h", "e", "n">>

\* Stored action dicts, as import_from_service leaves them or as a restored
\* state holds them.
ActionDicts ==
    {[service |-> TurnOn, entity |-> LightKitchen],
     [service |-> LightOn, entity |-> Kitchen],
     [service |-> LightOn, entity |-> SwitchKitchen, brightness |-> 5],
     [service |-> TurnOn, entity |-> Kitchen],
     [service |-> TurnOn],
     [service |-> LightOn],
     [service |-> LightOn, entity |-> LightKitchen, entity_id |-> Kitchen],
     [service |-> TurnOn, entity_id |-> LightKitchen]}

DefaultActions == <<[service |-> TurnOn, entity |-> LightKitchen]>>

\* The attributes of a restored entity: the input of import_data.
CodecStates ==
    {[actions |-> DefaultActions, entries |-> <<s>>, friendly_name |-> "porch", icon |-> "mdi:bulb"] :
        s \in ComposedStrings \cup OddStrings}
    \cup {[actions |-> DefaultActions, entries |-> l, friendly_name |-> "porch"] :
        l \in SeqsOf(ListStrings, 2, MaxEntryStrings)}
    \cup {[actions |-> DefaultActions, friendly_name |-> "porch"],
          [entries |-> <<Compose(<<"0">>, <<"0", "7", "0", "0">>, <<>>, <<"0">>)>>, icon |-> "mdi:bulb"]}

\* Time inputs of the verbose form: a datetime.time, or an event and a
\* timedelta in minutes.
ServiceTimes ==
    {[hour |-> 7, minute |-> 0],
     [event |-> "sunrise", offset |-> 30],
     [event |-> "sunset", offset |-> -15],
     [event |-> "sunrise", offset |-> 0],
     [event |-> "dawn", offset |-> 30],
     [event |-> "dusk", offset |-> -60]}

ServiceEndTimes ==
    {[hour |-> 19, minute |-> 30], [event |-> "sunset", offset |-> 90], [event |-> "dusk", offset |-> 0]}

ServiceEntries ==
    {[time |-> t, days |-> d, actions |-> a] :
        t \in ServiceTimes, d \in {<<0>>, <<5, 1, 3>>}, a \in {<<0>>, <<0, 1>>, <<>>}}
    \cup {[time |-> t, end_time |-> e, days |-> <<6>>, actions |-> <<1>>] :
        t \in ServiceTimes, e \in ServiceEndTimes}
    \cup {[time |-> t, actions |-> <<0>>] : t \in ServiceTimes}

ServiceActions ==
    {[service |-> LightOn, entity |-> LightKitchen],
     [service |-> LightOn, service_data |-> [entity_id |-> SwitchKitchen, brightness |-> 5]],
     [service |-> TurnOn, entity |-> Kitchen],
     [service |-> TurnOn]}

\* The data of a service call: the input of import_from_service.
CodecServices ==
    {[actions |-> <<a>>, entries |-> <<e>>, name |-> "porch"] :
        a \in {[service |-> LightOn, entity |-> LightKitchen]}, e \in ServiceEntries}

(***************************************************************************)
(* The aggregate and the calls made on it                                  *)
(***************************************************************************)

\* The fields import and export read and write.
Self == [entries |-> entries, actions |-> actions, name |-> name, icon |-> icon,
         sun_data |-> sun_data]

\* DataCollection.__init__
NewCollection == [entries |-> <<>>, actions |-> <<>>, name |-> NoneAtom,
                  icon |-> NoneAtom, sun_data |-> NoneDict]

\* The state after construction, with the input the collection is loaded
\* from and the clock.
InitWith(inputs, clocks) ==
    /\ entries = NewCollection.entries
    /\ actions = NewCollection.actions
    /\ name = NewCollection.name
    /\ icon = NewCollection.icon
    /\ sun_data = NewCollection.sun_data
    /\ now \in clocks
    /\ data \in inputs
    /\ pc = "new"
    /\ ret = [op |-> "__init__"]
    /\ restored = NoneDict

\* import_data(data) on the new collection (the restore of a saved entity)
ImportData ==
    /\ pc = "new"
    /\ data.kind = "state"
    /\ LET Take(r) ==
                /\ entries' = r.entries
                /\ actions' = r.actions
                /\ name' = r.name
                /\ icon' = r.icon
                /\ ret' = [op |-> "import_data", value |-> r.ret]
       IN  Take(import_data(Self, data.d))
    /\ pc' = "loaded"
    /\ UNCHANGED <<sun_data, now, data, restored>>

\* import_from_service(data) on the new collection
ImportFromService ==
    /\ pc = "new"
    /\ data.kind = "service"
    /\ LET Take(r) ==
                /\ entries' = r.entries
                /\ actions' = r.actions
                /\ name' = r.name
                /\ icon' = r.icon
                /\ ret' = [op |-> "import_from_service", value |-> r.ret]
       IN  Take(import_from_service(Self, data.d))
    /\ pc' = "loaded"
    /\ UNCHANGED <<sun_data, now, data, restored>>

\* export_data()
ExportData ==
    /\ pc = "loaded"
    /\ ret' = [op |-> "export_data", value |-> export_data(Self)]
    /\ pc' = "exported"
    /\ UNCHANGED <<entries, actions, name, icon, sun_data, now, data, restored>>

\* DataCollection().import_data(output) of the output export_data returned
RestoreExported ==
    /\ pc = "exported"
    /\ ret.value # Raised
    /\ restored' = import_data(NewCollection, ret.value)
    /\ pc' = "restored"
    /\ UNCHANGED <<entries, actions, name, icon, sun_data, now, data, ret>>

\* get_service_calls_for_entry(entry)
GetServiceCallsForEntry ==
    /\ pc = "loaded"
    /\ \E entry \in 0..(Len(entries) - 1) :
        ret' = [op |-> "get_service_calls_for_entry", entry |-> entry,
                value |-> get_service_calls_for_entry(Self, entry)]
    /\ UNCHANGED <<entries, actions, name, icon, sun_data, now, data, pc, restored>>

\* Snapshots of the sun's events: each event's second of the day, moved by
\* `drift` seconds.
Snapshot(drift) ==
    [sunrise |-> 21600 + drift, sunset |-> 64800 - drift,
     dawn |-> 19800 + drift, dusk |-> 66600 - drift]

\* The drifts differ by 1, 59, 60, 3600, 3601 and 3660 seconds.
Snapshots == {Snapshot(d) : d \in {0, 59, 60, 3660}}

\* update_sun_data(sun_data, entry)
UpdateSunData ==
    /\ pc = "loaded"
    /\ \E snapshot \in Snapshots, entry \in {<<>>} \cup {<<i>> : i \in 0..(Len(entries) - 1)} :
        LET Take(r) ==
                /\ sun_data' = r.sun_data
                /\ ret' = [op |-> "update_sun_data", before |-> sun_data, new |-> snapshot,
                           entry |-> entry, at |-> now, value |-> r.ret]
        IN  Take(update_sun_data(Self, snapshot, entry, now))
    /\ UNCHANGED <<entries, actions, name, icon, now, data, pc, restored>>

\* has_sun(): some entry starts at a solar event
has_sun == \E i \in 1..Len(entries) : "event" \in DOMAIN entries[i].time

\* get_next_entry(), called once the timers can be computed: there is an
\* entry, and a snapshot when an entry needs one
GetNextEntry ==
    /\ pc = "loaded"
    /\ entries # <<>>
    /\ has_sun => ~Falsy(sun_data)
    /\ ret' = [op |-> "get_next_entry", at |-> now, value |-> get_next_entry(Self, now)]
    /\ UNCHANGED <<entries, actions, name, icon, sun_data, now, data, pc, restored>>

\* The instants the clock is read at: day 10 (weekday 3) before the
\* sunrise, between two snapshots' sunrises, and at noon.
Clocks == {10 * 86400 + 18000, 10 * 86400 + 21630, 10 * 86400 + 43200}

\* Time passes.
Tick ==
    /\ \E t \in Clocks : t > now /\ now' = t
    /\ UNCHANGED <<entries, actions, name, icon, sun_data, data, pc, ret, restored>>

(***************************************************************************)
(* The codec: a restored state or a service call is loaded, exported and   *)
(* the export restored into a new collection.                              *)
(***************************************************************************)

InitCodec ==
    \/ InitWith({[kind |-> "state", d |-> d] : d \in CodecStates}, {0})
    \/ InitWith({[kind |-> "service", d |-> d] : d \in CodecServices}, {0})

NextCodec == ImportData \/ ImportFromService \/ ExportData \/ RestoreExported

SpecCodec == InitCodec /\ [][NextCodec]_vars

(***************************************************************************)
(* The resolver: an action table and entries that refer to it are loaded   *)
(* and the entries' calls resolved.                                        *)
(***************************************************************************)

RefStrings ==
    {<<"D", "0", "T", "0", "7", "0", "0", "A", "0">>,
     <<"D", "0", "T", "0", "7", "0", "0", "A", "0", "A", "1">>,
     <<"D", "0", "T", "0", "7", "0", "0", "A", "1", "A", "0">>,
     <<"D", "0", "T", "0", "7", "0", "0", "A", "5", "A", "1", "A", "0">>,
     <<"D", "0", "T", "0", "7", "0", "0", "A", "0", "A", "2", "A", "0">>}

RefLists == {<<0>>, <<1, 0>>, <<0, 5, 1>>, <<-1>>, <<0, -1>>, <<-3, 0>>}

ResolverStates ==
    {[actions |-> t, entries |-> <<s>>] :
        t \in SeqsOf(ActionDicts, 0, MaxActions), s \in RefStrings}

ResolverServices ==
    {[actions |-> t, entries |-> <<[time |-> [hour |-> 7, minute |-> 0], actions |-> r]>>] :
        t \in SeqsOf(ServiceActions, 0, MaxActions), r \in RefLists}

InitResolver ==
    \/ InitWith({[kind |-> "state", d |-> d] : d \in ResolverStates}, {0})
    \/ InitWith({[kind |-> "service", d |-> d] : d \in ResolverServices}, {0})

NextResolver == ImportData \/ ImportFromService \/ GetServiceCallsForEntry

SpecResolver == InitResolver /\ [][NextResolver]_vars

(***************************************************************************)
(* The timers: entries are loaded, snapshots of the sun arrive, the         *)
(* closest entry is asked for, time passes.                                *)
(***************************************************************************)

TimedStrings ==
    {<<"D", "3", "T", "S", "R", "0", "0", "0", "0", "A", "0">>,
     <<"D", "3", "4", "T", "0", "0", "1", "5", "S", "S", "A", "0">>,
     <<"D", "3", "4", "T", "0", "6", "0", "0", "A", "0">>,
     <<"D", "4", "3", "T", "0", "6", "0", "0", "T", "0", "7", "0", "0", "A", "1">>}

TimedStates ==
    {[actions |-> DefaultActions, entries |-> l] :
        l \in SeqsOf(TimedStrings, 1, MaxTimedEntries)}

InitTimers == InitWith({[kind |-> "state", d |-> d] : d \in TimedStates}, Clocks)

NextTimers == ImportData \/ UpdateSunData \/ GetNextEntry \/ Tick

SpecTimers == InitTimers /\ [][NextTimers]_vars

(***************************************************************************)
(* The compact grammar of the specification, section 4.1                   *)
(***************************************************************************)

\* HHMM: four digits of a 24h clock
GrammarHHMM(t) ==
    /\ Len(t) = 4
    /\ AllIn(t, Digit)
    /\ PyInt(SubSeq(t, 1, 2)) <= 23
    /\ PyInt(SubSeq(t, 3, 4)) <= 59

EventCodes == {<<"S", "R">>, <<"S", "S">>, <<"D", "W">>, <<"D", "U">>}

\* Time := FixedTime | SolarTime, a SolarTime with at most one offset
GrammarTime(t) ==
    \/ GrammarHHMM(t)
    \/ t \in EventCodes
    \/ Len(t) = 6 /\ GrammarHHMM(SubSeq(t, 1, 4)) /\ SubSeq(t, 5, 6) \in EventCodes
    \/ Len(t) = 6 /\ SubSeq(t, 1, 2) \in EventCodes /\ GrammarHHMM(SubSeq(t, 3, 6))

\* Actions := index ("A" index)*, an index written as str() writes it
GrammarActions(a) ==
    /\ a # <<>>
    /\ AllIn(a, ActionClass)
    /\ a[1] # "A"
    /\ a[Len(a)] # "A"
    /\ \A i \in 1..(Len(a) - 1) : ~(a[i] = "A" /\ a[i + 1] = "A")
    /\ \A i \in 1..(Len(a) - 1) :
          (a[i] = "0" /\ (i = 1 \/ a[i - 1] = "A")) => a[i + 1] = "A"

\* Entry := "D" Days "T" Time ("T" Time)? "A" Actions
InGrammar(s) ==
    \E d \in 1..Len(s), t \in 1..Len(s), e \in 0..Len(s) :
        LET pa == 3 + d + t + (IF e = 0 THEN 0 ELSE e + 1) IN
        /\ pa < Len(s)
        /\ s[1] = "D"
        /\ AllIn(SubSeq(s, 2, 1 + d), {"0", "1", "2", "3", "4", "5", "6"})
        /\ s[2 + d] = "T"
        /\ GrammarTime(SubSeq(s, 3 + d, 2 + d + t))
        /\ (e > 0 => /\ s[3 + d + t] = "T"
                     /\ GrammarTime(SubSeq(s, 4 + d + t, 3 + d + t + e)))
        /\ s[pa] = "A"
        /\ GrammarActions(SubSeq(s, pa + 1, Len(s)))

\* The input is a restored state that holds both keys.
StateInput ==
    /\ data.kind = "state"
    /\ "actions" \in DOMAIN data.d
    /\ "entries" \in DOMAIN data.d

\* "HH:MM"
IsClock(at) ==
    /\ Len(at) = 5
    /\ AllIn(SubSeq(at, 1, 2) \o SubSeq(at, 4, 5), Digit)
    /\ at[3] = ":"

\* A TimeSpec of section 3: a fixed HH:MM, or one of the four events with a
\* signed HH:MM offset
ValidTime(time) ==
    \/ DOMAIN time = {"at"} /\ IsClock(time.at)
    \/ /\ DOMAIN time = {"event", "offset"}
       /\ time.event \in {"sunrise", "sunset", "dawn", "dusk"}
       /\ Len(time.offset) = 6
       /\ time.offset[1] \in {"+", "-"}
       /\ IsClock(SubSeq(time.offset, 2, 6))

\* An entry as claim C2 takes it
ValidEntry(e) ==
    /\ "time" \in DOMAIN e
    /\ ValidTime(e.time)
    /\ ("end_time" \in DOMAIN e => ValidTime(e.end_time))
    /\ e.days # <<>>
    /\ \A i \in 1..Len(e.days) : e.days[i] \in 0..6
    /\ \A i \in 1..Len(e.actions) : e.actions[i] >= 0

(***************************************************************************)
(* Claims about the codec, checked under SpecCodec                         *)
(***************************************************************************)

\* C1: importing one entry string that is valid under the grammar of
\* section 4.1 into an empty aggregate succeeds, and export_data then
\* yields an entries list whose single element is that string.
C1_StringRoundTrip ==
    (StateInput /\ Len(data.d.entries) = 1 /\ InGrammar(data.d.entries[1])) =>
        /\ pc = "loaded" => ret.value = "True"
        /\ pc = "exported" => (ret.value # Raised /\ ret.value.entries = data.d.entries)

\* C2: for an aggregate whose entries are all valid (non-empty days 0-6,
\* fixed or solar times with a signed HH:MM offset, action indices),
\* export_data succeeds and import_data of the output into an empty
\* aggregate succeeds and yields the same entries.
C2_EntryRoundTrip ==
    (entries # <<>> /\ \A i \in 1..Len(entries) : ValidEntry(entries[i])) =>
        /\ pc = "exported" => ret.value # Raised
        /\ pc = "restored" => (restored.ret = "True" /\ restored.entries = entries)

\* C3: import_data fails (returns False or raises) whenever one of the
\* entry strings is not derivable from the grammar of section 4.1.
C3_MalformedRejected ==
    (pc = "loaded" /\ StateInput
     /\ \E i \in 1..Len(data.d.entries) : ~InGrammar(data.d.entries[i])) =>
        ret.value \in {"False", "Exception"}

\* C10: an import_data call that returns False or raises leaves entries,
\* actions, name and icon as they were before the call.
C10_FailedImportLoadsNothing ==
    [][(pc = "new" /\ ret'.op = "import_data" /\ ret'.value # "True") =>
          (entries' = entries /\ actions' = actions /\ name' = name /\ icon' = icon)]_vars

(***************************************************************************)
(* Claims about the resolver, checked under SpecResolver                   *)
(***************************************************************************)

\* The action indices of the entry the last call resolved
ResolvedRefs == entries[ret.entry + 1].actions

\* Those that are valid positions in the action table, in their order
ValidRefs == SelectSeq(ResolvedRefs, LAMBDA a : 0 <= a /\ a < Len(actions))

\* Those the loop takes (line 146), in their order
TakenRefs == SelectSeq(ResolvedRefs, LAMBDA a : Len(actions) > a)

\* s ends with tail
EndsWith(s, tail) ==
    Len(tail) <= Len(s) /\ SubSeq(s, Len(s) - Len(tail) + 1, Len(s)) = tail

\* The call carries the service and the entity of the action.
BuiltFrom(call, action_data) ==
    /\ EndsWith(call.service, action_data.service)
    /\ ("entity" \in DOMAIN action_data /\ ~("entity_id" \in DOMAIN action_data)) =>
          ("entity_id" \in DOMAIN call /\ EndsWith(call.entity_id, action_data.entity))

Resolved == ret.op = "get_service_calls_for_entry"

\* C4 as stated: every call resolved from an in-range action that has an
\* entity carries a service containing "." and an entity_id containing ".".
C4_AlwaysNamespaced ==
    (Resolved /\ ~ret.value.raised) =>
        \A k \in 1..Len(ret.value.calls) :
            (TakenRefs[k] >= 0 /\ "entity" \in DOMAIN actions[TakenRefs[k] + 1]) =>
                /\ Dotted(ret.value.calls[k].service)
                /\ Dotted(ret.value.calls[k].entity_id)

\* The call of an action that has an entity: the service always holds a
\* "."; the entity_id does when the action's service or entity holds one
\* and the action has no "entity_id" key of its own.
NamespacedCall(call, action_data) ==
    /\ Dotted(call.service)
    /\ ~Dotted(action_data.service) =>
          call.service = SplitPop0(action_data.entity) \o <<".">> \o action_data.service
    /\ Dotted(action_data.service) => call.service = action_data.service
    /\ "entity_id" \in DOMAIN call
    /\ "entity_id" \in DOMAIN action_data => call.entity_id = action_data.entity_id
    /\ ~("entity_id" \in DOMAIN action_data) =>
          /\ (Dotted(action_data.service) \/ Dotted(action_data.entity)) =>
                Dotted(call.entity_id)
          /\ (Dotted(action_data.service) /\ ~Dotted(action_data.entity)) =>
                call.entity_id = SplitPop0(action_data.service) \o <<".">> \o action_data.entity
          /\ (~Dotted(action_data.service) \/ Dotted(action_data.entity)) =>
                call.entity_id = action_data.entity

\* C4 as amended: every call resolved from an in-range action that has an
\* entity carries a service containing "." (a service without one is
\* prefixed with the domain of the entity); its entity_id contains "." when
\* the action's service or entity contains one and the action has no
\* "entity_id" key (an entity without "." is prefixed with the domain of a
\* service that has one, and left as it is when the service has none).
C4_NamespacedWhenInferable ==
    (Resolved /\ ~ret.value.raised) =>
        \A k \in 1..Len(ret.value.calls) :
            (TakenRefs[k] >= 0 /\ "entity" \in DOMAIN actions[TakenRefs[k] + 1]) =>
                NamespacedCall(ret.value.calls[k], actions[TakenRefs[k] + 1])

\* A list of calls was returned in which service "turn_on" with entity
\* "light.kitchen" became "light.turn_on" on "light.kitchen", and another
\* in which entity "kitchen" took the domain of service "light.turn_on".
C4_Witness ==
    /\ Resolved
    /\ ~ret.value.raised
    /\ Len(ret.value.calls) = 2
    /\ TakenRefs = <<0, 1>>
    /\ actions[1] = [service |-> TurnOn, entity |-> LightKitchen]
    /\ actions[2] = [service |-> LightOn, entity |-> Kitchen]
    /\ ret.value.calls[1] = [service |-> LightOn, entity_id |-> LightKitchen]
    /\ ret.value.calls[2] = [service |-> LightOn, entity_id |-> LightKitchen]

\* C5: the call returns, without an error, exactly one call per action index
\* that is a valid position in the action table, in the listed order, each
\* built from the action at that position.
C5_OneCallPerValidIndex ==
    Resolved =>
        /\ ~ret.value.raised
        /\ Len(ret.value.calls) = Len(ValidRefs)
        /\ \A k \in 1..Len(ValidRefs) :
              BuiltFrom(ret.value.calls[k], actions[ValidRefs[k] + 1])

\* C8: when a referenced in-range action has a service without "." and no
\* entity, no error is raised: its call is produced with the service as it
\* is, and the entry's other references are resolved.
C8_NoErrorWithoutEntity ==
    (Resolved /\ \E k \in 1..Len(ValidRefs) :
                    /\ ~Dotted(actions[ValidRefs[k] + 1].service)
                    /\ ~("entity" \in DOMAIN actions[ValidRefs[k] + 1])) =>
        /\ ~ret.value.raised
        /\ Len(ret.value.calls) = Len(TakenRefs)
        /\ \A k \in 1..Len(ValidRefs) :
              (/\ ~Dotted(actions[ValidRefs[k] + 1].service)
               /\ ~("entity" \in DOMAIN actions[ValidRefs[k] + 1])) =>
                  ret.value.calls[k].service = actions[ValidRefs[k] + 1].service

(***************************************************************************)
(* Claims about the timers, checked under SpecTimers                       *)
(***************************************************************************)

Updated == ret.op = "update_sun_data"

\* The seconds between the next firing time of the entry of the last
\* update_sun_data call under the snapshot installed before the call and
\* under the snapshot passed in
Drift ==
    Abs(calculate_next_start_time(entries[ret.entry[1] + 1], ret.before, ret.at)
        - calculate_next_start_time(entries[ret.entry[1] + 1], ret.new, ret.at))

Timestamps ==
    [i \in 1..Len(entries) |-> calculate_next_start_time(entries[i], sun_data, ret.at)]

\* C7: get_next_entry returns the index of an entry whose next firing time
\* is the least of all, and the smallest such index.
C7_ClosestFirst ==
    ret.op = "get_next_entry" =>
        /\ ret.value \in 0..(Len(entries) - 1)
        /\ \A j \in 1..Len(entries) : Timestamps[ret.value + 1] <= Timestamps[j]
        /\ \A j \in 1..ret.value : Timestamps[j] > Timestamps[ret.value + 1]

\* get_next_entry chose the first of two different entries that fire next
\* at the same time.
C7_Witness ==
    /\ ret.op = "get_next_entry"
    /\ Len(entries) = 2
    /\ entries[1] # entries[2]
    /\ Timestamps[1] = Timestamps[2]
    /\ ret.value = 0

====
